---- MODULE Spec2Model ----
(***************************************************************************)
(* Model of scripts/mcp_context7_demo.py: the HelloContext handler and the *)
(* module body that, when run as the main program, constructs the handler, *)
(* constructs an MCPServer bound to it, prints a startup line and serves   *)
(* on port 8008.  The external library (MCPServer, Context) is opaque: its *)
(* calls may raise, serve may return or raise, and while serving it may    *)
(* dispatch any request to handle and do anything with the response.       *)
(***************************************************************************)
EXTENDS Integers, Sequences, FiniteSets

VARIABLES
    name,         \* value of __name__ for this load of the file
    pc,           \* position of the module body
    classDefined, \* whether the class statement of HelloContext has run
    handler,      \* the HelloContext instance (id 0: not constructed)
    server,       \* the MCPServer instance (id 0: not constructed)
    stdout,       \* lines printed so far
    served,       \* calls of serve so far: the server called and the port
    failedAt,     \* the step whose exception ended the program ("" if none)
    heap,         \* the mappings created by handle, by object identity
    returned,     \* identities of the objects handle returned, in call order
    last,         \* the last handle call: request before/after, result
    dirty         \* whether a caller has mutated a response it received

vars == <<name, pc, classDefined, handler, server, stdout, served, failedAt,
          heap, returned, last, dirty>>

\* ------------------------------------------------------------------ bounds
MaxCalls == 3

\* --------------------------------------------------------------- constants
WrongPort == 8000 + 80

Port == 8008

StartupMessage == "Starting MCP server on http://localhost:8008 ..."

\* ------------------------------------------------------------------ values
\* A Python dict over a small universe of keys: key -> value, or Absent.
Keys == {"message", "extra"}

Absent == "<absent>"

Vals == {"Hello from context7!", "other"}

EmptyDict == [k \in Keys |-> Absent]

\* The dict display of line 8.
Payload == [k \in Keys |-> IF k = "message" THEN "Hello from context7!" ELSE Absent]

\* Request values of several shapes: None, a string, dicts.
Requests ==
    { [tag |-> "none", d |-> EmptyDict],
      [tag |-> "str",  d |-> EmptyDict],
      [tag |-> "dict", d |-> EmptyDict],
      [tag |-> "dict", d |-> Payload],
      [tag |-> "dict", d |-> [k \in Keys |-> "other"]] }

NoObject == [id |-> 0, cls |-> "", attrs |-> {}, context |-> 0]

\* ----------------------------------------------------------- HelloContext
\* Mutants of handle.
handle_echo(self, request, objs) ==
    [ self    |-> self,
      request |-> request,
      heap    |-> Append(objs, IF request.tag = "dict" THEN request.d ELSE Payload),
      ret     |-> Len(objs) + 1 ]

handle_shared(self, request, objs) ==
    IF objs = <<>>
    THEN [self |-> self, request |-> request, heap |-> <<Payload>>, ret |-> 1]
    ELSE [self |-> self, request |-> request, heap |-> objs, ret |-> 1]

handle_caching(self, request, objs) ==
    [ self    |-> [self EXCEPT !.attrs = @ \cup {"last_request"}],
      request |-> request,
      heap    |-> Append(objs, Payload),
      ret     |-> Len(objs) + 1 ]

\* handle(self, request): evaluates the dict display, which allocates a new
\* mapping, and returns a reference to it.  self and request are not touched.
handle(self, request, objs) ==
    [ self    |-> self,
      request |-> request,
      heap    |-> Append(objs, Payload),
      ret     |-> Len(objs) + 1 ]

\* HelloContext(): the class defines no __init__ and sets no attribute.
HelloContextCtor(id) ==
    [id |-> id, cls |-> "HelloContext", attrs |-> {}, context |-> 0]

\* -------------------------------------------------------------- __main__
MCPServerCtorNoContext(ctx, id) ==
    [id |-> id, cls |-> "MCPServer", attrs |-> {}, context |-> 0]

\* MCPServer(context=ctx)
MCPServerCtor(ctx, id) ==
    [id |-> id, cls |-> "MCPServer", attrs |-> {}, context |-> ctx.id]

IsMainAlways(n) == TRUE

\* __name__ == '__main__'
IsMain(n) == n = "__main__"

print_twice(out, line) == Append(Append(out, line), line)

\* print(line)
print(out, line) == Append(out, line)

\* The steps of the module body at which an exception can be raised.
FailPoints ==
    {"import_mcp", "import_context7", "class_def", "new_handler", "new_server",
     "print", "serve", "serving"}

Init ==
    /\ name \in {"__main__", "mcp_context7_demo"}
    /\ pc = "import_mcp"
    /\ classDefined = FALSE
    /\ handler = NoObject
    /\ server = NoObject
    /\ stdout = <<>>
    /\ served = <<>>
    /\ failedAt = ""
    /\ heap = <<>>
    /\ returned = <<>>
    /\ last = [req |-> [tag |-> "none", d |-> EmptyDict],
               reqAfter |-> [tag |-> "none", d |-> EmptyDict],
               ret |-> 0, value |-> EmptyDict, afterMutation |-> FALSE]
    /\ dirty = FALSE

\* line 3: from mcp.server import MCPServer
ImportMCP ==
    /\ pc = "import_mcp"
    /\ pc' = "import_context7"
    /\ UNCHANGED <<name, classDefined, handler, server, stdout, served, failedAt,
                   heap, returned, last, dirty>>

\* line 4: from context7 import Context
ImportContext7 ==
    /\ pc = "import_context7"
    /\ pc' = "class_def"
    /\ UNCHANGED <<name, classDefined, handler, server, stdout, served, failedAt,
                   heap, returned, last, dirty>>

\* lines 6-8: the class statement
ClassDef ==
    /\ pc = "class_def"
    /\ classDefined' = TRUE
    /\ pc' = "main_guard"
    /\ UNCHANGED <<name, handler, server, stdout, served, failedAt,
                   heap, returned, last, dirty>>

\* line 10: if __name__ == '__main__'
MainGuard ==
    /\ pc = "main_guard"
    /\ pc' = IF IsMain(name) THEN "new_handler" ELSE "loaded"
    /\ UNCHANGED <<name, classDefined, handler, server, stdout, served, failedAt,
                   heap, returned, last, dirty>>

\* line 11, argument: HelloContext()
NewHandler ==
    /\ pc = "new_handler"
    /\ handler' = HelloContextCtor(1)
    /\ pc' = "new_server"
    /\ UNCHANGED <<name, classDefined, server, stdout, served, failedAt,
                   heap, returned, last, dirty>>

\* line 11: server = MCPServer(context=...)
NewServer ==
    /\ pc = "new_server"
    /\ server' = MCPServerCtor(handler, 2)
    /\ pc' = "print"
    /\ UNCHANGED <<name, classDefined, handler, stdout, served, failedAt,
                   heap, returned, last, dirty>>

\* line 12
PrintStartup ==
    /\ pc = "print"
    /\ stdout' = print(stdout, StartupMessage)
    /\ pc' = "serve"
    /\ UNCHANGED <<name, classDefined, handler, server, served, failedAt,
                   heap, returned, last, dirty>>

\* line 13: server.serve(port=8008) is entered
CallServe ==
    /\ pc = "serve"
    /\ served' = Append(served, [server |-> server.id, port |-> Port])
    /\ pc' = "serving"
    /\ UNCHANGED <<name, classDefined, handler, server, stdout, failedAt,
                   heap, returned, last, dirty>>

ServeReturnsAndRestarts ==
    /\ pc = "serving"
    /\ Len(served) < 2
    /\ pc' = "serve"
    /\ UNCHANGED <<name, classDefined, handler, server, stdout, served, failedAt,
                   heap, returned, last, dirty>>

\* line 13: serve returns; the module body has no statement after it
ServeReturns ==
    /\ pc = "serving"
    /\ pc' = "done"
    /\ UNCHANGED <<name, classDefined, handler, server, stdout, served, failedAt,
                   heap, returned, last, dirty>>

RaiseSwallowed ==
    /\ pc \in {"new_handler", "new_server", "print"}
    /\ failedAt' = pc
    /\ pc' = CASE pc = "new_handler" -> "new_server"
               [] pc = "new_server"  -> "print"
               [] OTHER              -> "serve"
    /\ UNCHANGED <<name, classDefined, handler, server, stdout, served,
                   heap, returned, last, dirty>>

\* A statement raises; the module body has no try statement, so the exception
\* leaves the module body and no later statement runs.
Raise ==
    /\ pc \in FailPoints
    /\ failedAt' = pc
    /\ pc' = "error"
    /\ UNCHANGED <<name, classDefined, handler, server, stdout, served,
                   heap, returned, last, dirty>>

\* While serving, the server passes a request to the bound handler's handle.
Handle ==
    /\ pc = "serving"
    /\ Len(returned) < MaxCalls
    /\ \E req \in Requests :
         LET r == handle(handler, req, heap) IN
           /\ handler' = r.self
           /\ heap' = r.heap
           /\ returned' = Append(returned, r.ret)
           /\ last' = [req |-> req, reqAfter |-> r.request, ret |-> r.ret,
                       value |-> r.heap[r.ret], afterMutation |-> dirty]
    /\ UNCHANGED <<name, pc, classDefined, server, stdout, served, failedAt, dirty>>

\* A caller adds or overwrites a key of a response it received.
SetItem ==
    /\ pc = "serving"
    /\ \E i \in 1..Len(returned), k \in Keys, v \in Vals :
         /\ heap[returned[i]][k] # v
         /\ heap' = [heap EXCEPT ![returned[i]][k] = v]
    /\ dirty' = TRUE
    /\ UNCHANGED <<name, pc, classDefined, handler, server, stdout, served,
                   failedAt, returned, last>>

\* A caller removes a key of a response it received.
DelItem ==
    /\ pc = "serving"
    /\ \E i \in 1..Len(returned), k \in Keys :
         /\ heap[returned[i]][k] # Absent
         /\ heap' = [heap EXCEPT ![returned[i]][k] = Absent]
    /\ dirty' = TRUE
    /\ UNCHANGED <<name, pc, classDefined, handler, server, stdout, served,
                   failedAt, returned, last>>

Next ==
    \/ ImportMCP
    \/ ImportContext7
    \/ ClassDef
    \/ MainGuard
    \/ NewHandler
    \/ NewServer
    \/ PrintStartup
    \/ CallServe
    \/ ServeReturns
    \/ Raise
    \/ Handle
    \/ SetItem
    \/ DelItem

Spec == Init /\ [][Next]_vars

\* ================================================================== claims
ScriptState == <<name, pc, classDefined, handler, server, stdout, served, failedAt>>

\* C1: every response handle returns, for whatever request it was given
\* (None, a string, any dict), is the mapping with the single key 'message'
\* and the value 'Hello from context7!'.
C1_ConstantResponse ==
    returned # <<>> =>
        /\ last.value["message"] = "Hello from context7!"
        /\ \A k \in Keys \ {"message"} : last.value[k] = "<absent>"

\* handle has answered a request that is a dict differing from the greeting.
C1_Witness ==
    /\ returned # <<>>
    /\ last.req.tag = "dict"
    /\ last.req.d["message"] = "other"

\* C2: the startup message is never printed more than once, and whenever
\* serve has been entered it has been printed exactly once.
C2_PrintedOnceBeforeServe ==
    /\ Len(stdout) <= 1
    /\ \A i \in 1..Len(stdout) :
         stdout[i] = "Starting MCP server on http://localhost:8008 ..."
    /\ served # <<>> => Len(stdout) = 1

\* serve has been entered.
C2_Witness == pc = "serving" /\ served # <<>> /\ Len(stdout) = 1

\* C3: serve is called at most once, on the one server instance, and only
\* ever with port 8008.
C3_OneBindOn8008 ==
    /\ Len(served) <= 1
    /\ \A i \in 1..Len(served) :
         /\ served[i].port = 8008
         /\ served[i].server = server.id
         /\ server.cls = "MCPServer"

\* serve has been called and has returned.
C3_Witness == pc = "done" /\ Len(served) = 1

\* C4: the server exists only once the handler exists and is bound to that
\* HelloContext instance; serve is called only on the constructed server; the
\* steps are taken in the order handler, server, serve.
C4_LinearOrder ==
    /\ server.id # 0 =>
         /\ handler.id # 0
         /\ handler.cls = "HelloContext"
         /\ server.context = handler.id
    /\ served # <<>> => server.id # 0 /\ served[1].server = server.id
    /\ pc = "new_server" => handler.id # 0 /\ server.id = 0 /\ served = <<>>
    /\ pc \in {"print", "serve"} => server.id # 0 /\ served = <<>>
    /\ pc = "new_handler" => handler.id = 0 /\ server.id = 0 /\ served = <<>>

\* the server has been constructed and serve called on it.
C4_Witness == served # <<>> /\ server.id # 0 /\ server.context = handler.id

\* C5: a failing step ends the program in the error state, in which nothing
\* further happens (no retry, no later step); a failure of a construction
\* step leaves the message unprinted and serve uncalled.
C5_FailuresPropagate ==
    /\ [](failedAt # "" => pc = "error")
    /\ [](failedAt \in {"new_handler", "new_server"} =>
             stdout = <<>> /\ served = <<>>)
    /\ [](failedAt = "new_handler" => server.id = 0)
    /\ [](failedAt = "print" => served = <<>>)
    /\ [](failedAt \in {"serve", "serving"} => Len(served) <= 1)
    /\ [][pc = "error" => UNCHANGED vars]_vars

\* server construction has failed.
C5_Witness == pc = "error" /\ failedAt = "new_server" /\ handler.id # 0

\* C6: a handle call changes neither the handler object, nor the request,
\* nor any script state, nor any mapping that existed before the call.
C6_HandleHasNoSideEffects ==
    [][returned' # returned =>
          /\ UNCHANGED ScriptState
          /\ UNCHANGED dirty
          /\ last'.reqAfter = last'.req
          /\ Len(heap') >= Len(heap)
          /\ SubSeq(heap', 1, Len(heap)) = heap]_vars

\* handle has been called several times, interleaved with caller mutations.
C6_Witness == pc = "serving" /\ Len(returned) >= 2 /\ dirty

\* C7: while serve is running the script changes nothing of its own; it can
\* only go on serving, end normally because serve returned, or end with an
\* error; once ended normally nothing further happens, and the normal end is
\* reached from the serving state only.
C7_ServeBlocks ==
    [][/\ pc = "serving" =>
            /\ pc' \in {"serving", "done", "error"}
            /\ UNCHANGED <<name, classDefined, handler, server, stdout, served>>
       /\ pc = "done" => UNCHANGED vars
       /\ (pc' = "done" /\ pc # "done") => pc = "serving"]_vars

\* serve has returned after requests were handled.
C7_Witness == pc = "done" /\ returned # <<>> /\ Len(served) = 1 /\ Len(stdout) = 1

\* C8: every handle call returns an object distinct from every object
\* returned before, and a call made after callers have mutated earlier
\* responses still returns the greeting mapping.
C8_FreshPayload ==
    /\ \A i, j \in 1..Len(returned) : i # j => returned[i] # returned[j]
    /\ (returned # <<>> /\ last.afterMutation) =>
          last.value = [k \in Keys |->
                          IF k = "message" THEN "Hello from context7!" ELSE "<absent>"]

\* an earlier response was mutated by its caller and handle was called again.
C8_Witness ==
    /\ Len(returned) >= 2
    /\ last.afterMutation
    /\ heap[returned[1]]["message"] # "Hello from context7!"
    /\ heap[returned[1]]["extra"] # "<absent>"

\* C9: loaded as a module, the file defines the class and nothing else: no
\* handler, no server, nothing printed, serve never called.
C9_ImportOnlyDefinesClass ==
    name # "__main__" =>
        /\ handler.id = 0
        /\ server.id = 0
        /\ stdout = <<>>
        /\ served = <<>>
        /\ returned = <<>>
        /\ pc \notin {"new_handler", "new_server", "print", "serve", "serving", "done"}
        /\ pc = "loaded" => classDefined

\* the load as a module has completed.
C9_Witness == name # "__main__" /\ pc = "loaded" /\ classDefined

====
